---- MODULE Spec2Model ----
(***************************************************************************)
(* Model of the EventBus broker (src/src/EventBus/EventBus.cpp and         *)
(* src/include/EventBus/EventBus.h): the handler registry, the pending     *)
(* queue, the two lifecycle flags, the worker-thread handle, the dispatch  *)
(* worker and the caller threads that run subscribe/publish/start/stop.    *)
(*                                                                         *)
(* Every block of code that runs under std::lock_guard / std::unique_lock  *)
(* on mutex_ is one atomic action.  The code of stop() between its two     *)
(* critical sections (joinable(), join()) runs without the mutex and is    *)
(* modelled step by step.  mutex_ records who owns the mutex between       *)
(* actions: it is free unless a lock outlives its critical section.        *)
(* A handler is user code: it begins (workerInvoke), may call subscribe()  *)
(* or publish() on the bus, and returns (workerReturn).  The creation of   *)
(* the worker thread in start() may fail (startSpawnFails).                *)
(*                                                                         *)
(* The second part models SimulatorManager                                 *)
(* (src/src/SensorSimulator/SimulatorManager.cpp) with the simulators it   *)
(* runs (src/include/SensorSimulator/GenericSimulator.h).  Its methods     *)
(* take no lock around their loops, so every loop iteration is a step.     *)
(* A range-for evaluates end() once; iterating a std::vector that another  *)
(* thread resizes meanwhile is undefined, and is modelled as a choice      *)
(* between going on with the element at that position and a crash.         *)
(* Spec is the bus driven by its callers; MgrSpec is the manager driven by *)
(* its callers, with the simulators publishing to the bus.                 *)
(***************************************************************************)
EXTENDS Integers, Sequences, FiniteSets, TLC

\* ---------------------------------------------------------------- bounds
\* caller threads, the number of API calls they make between them, and the
\* number of times the system fails to create a thread (those start() calls
\* are not counted in MaxCalls)
NCallers == 2
MaxCalls == 5
MaxSpawnFailures == 1
\* simulators handed to addSimulator(), and the number of startAll() and
\* stopAll() calls made on the manager
MaxSims == 2
MaxMgrCalls == 4

Callers == 1..NCallers
EventIds == 1..MaxCalls
\* the identity of the dispatch thread among the threads that call the bus
WorkerThread == NCallers + 1
SimIds == 1..MaxSims

VARIABLES
    handlers_,        \* std::vector<HandlerType>: registration ids in subscription order
    event_queue_,     \* std::deque<unique_ptr<Event>>: event ids, head first
    running_,         \* bool running_
    stop_requested_,  \* bool stop_requested_
    worker_thread_,   \* std::thread handle: TRUE iff worker_thread_.joinable()
    wpc,              \* position of the current worker in dispatchLoop
    event,            \* dispatchLoop local `event` (0 = null unique_ptr)
    handlers_copy,    \* dispatchLoop local `handlers_copy`
    hidx,             \* position of the range-for over handlers_copy
    pc,               \* position of each caller thread
    terminated,       \* std::terminate() has been called: the process is gone
    spawned,          \* history: number of worker threads ever created
    exited,           \* history: number of worker threads that returned from dispatchLoop
    published,        \* history: number of publish() calls that enqueued (event ids 1..published)
    dequeued,         \* history: event ids in the order the worker popped them
    registryAtPop,    \* history: content of handlers_ when each event was popped
    invoked,          \* history: for each event the handlers invoked with it, in order
    nCalls,           \* history: number of subscribe/publish/start/stop calls made
    nStart,           \* history: number of start() calls made
    nStop,            \* history: number of stop() calls made
    stopCall,         \* history: per caller, facts about its current/last stop() call
    joins,            \* history: number of worker_thread_.join() calls begun on each worker
    enqAtExit,        \* history: number of events enqueued when the last worker exited
    subsAtPublish,    \* history: size of handlers_ when each event was enqueued
    enqAtFirstStart,  \* history: number of events enqueued when the first worker was spawned (-1 before)
    mutex_,           \* std::mutex mutex_: "free" or the thread that owns it
    executing,        \* the handler invocations <<event, handler>> that have begun and not returned
    raised,           \* some API call has left by an exception instead of returning
    reentered,        \* the handler that is executing has called subscribe() or publish()
    publisher,        \* history: the thread whose publish() enqueued each event (0: not recorded)
    nSpawnFailures,   \* history: number of start() calls whose thread creation failed
    tracking,         \* whether publisher is recorded in this behaviour; never changes
    destructor,       \* 0: the bus is alive; t: thread t is inside ~EventBus(); -1: destroyed
    enqAtDtor,        \* history: number of events enqueued when ~EventBus() was entered (-1 before)
    failed,           \* history: a handler has left by an exception
    simulators_,      \* SimulatorManager::simulators_: simulator ids in the order added
    threads_,         \* SimulatorManager::threads_: one record per std::thread in the vector
                      \* (stale is history: the simulator's stop flag was set when the thread was made)
    state_,           \* SimulatorManager::state_: "Stopped" or "Running"
    mgr_mutex_,       \* SimulatorManager::mutex_: 0 or the caller that owns it
    sim_stop_,        \* GenericSimulator::stop_requested_ of each simulator
    mpc,              \* position of each caller thread inside a SimulatorManager method
    midx,             \* per caller: position of its range-for
    mend,             \* per caller: end() of its range-for, taken when the loop began
    aborted,          \* the process crashed or called std::terminate() in manager code
    invalidated,      \* callers whose range-for runs over a vector resized since the loop began
    nSims,            \* history: number of simulators handed to addSimulator()
    nMgrCalls,        \* history: number of startAll()/stopAll() calls made
    nThreads,         \* history: number of threads the manager has created
    nStartLost,       \* history: number of startAll() calls that returned "already running"
    ran,              \* history: per caller, the simulators its current/last startAll() gave a thread
    signalled,        \* history: per caller, the simulators its current/last stopAll() signalled
    joinedIds         \* history: the threads on which join() has returned

vars == << nCalls, handlers_, event_queue_, running_, stop_requested_, worker_thread_,
           wpc, event, handlers_copy, hidx, pc, terminated, spawned, exited,
           published, dequeued, registryAtPop, invoked, nStart,
           nStop, stopCall, joins, enqAtExit, subsAtPublish, enqAtFirstStart,
           mutex_, executing, raised, reentered, publisher, nSpawnFailures, tracking,
           destructor, enqAtDtor, failed, simulators_, threads_, state_, mgr_mutex_,
           sim_stop_, mpc, midx, mend, aborted, invalidated, nSims, nMgrCalls,
           nThreads, nStartLost, ran, signalled, joinedIds >>

\* the variables of the manager and its simulators
mgrVars == << simulators_, threads_, state_, mgr_mutex_, sim_stop_, mpc, midx, mend,
             aborted, invalidated, nSims, nMgrCalls, nThreads, nStartLost, ran,
             signalled, joinedIds >>

\* the variables of the bus and its worker
ebVars == << handlers_, event_queue_, running_, stop_requested_, worker_thread_,
            wpc, event, handlers_copy, hidx, pc, terminated, spawned, exited,
            published, dequeued, registryAtPop, invoked, nCalls, nStart, nStop,
            stopCall, joins, enqAtExit, subsAtPublish, enqAtFirstStart, mutex_,
            executing, raised, reentered, publisher, nSpawnFailures, tracking,
            destructor, enqAtDtor, failed >>

busVars == << handlers_, event_queue_, running_, stop_requested_, worker_thread_ >>
workerVars == << wpc, event, handlers_copy, hidx >>
histVars == << spawned, exited, published, dequeued, registryAtPop,
               invoked, nStart, nStop, stopCall, joins, enqAtExit,
               subsAtPublish, enqAtFirstStart >>

NoStop == [returned |-> FALSE, noop |-> FALSE, enqAtCall |-> 0,
           enqAtReturn |-> 0, joined |-> FALSE, startsAtCall |-> 0]

\* EventBus() = default with the member initialisers of EventBus.h:113-120
Constructed ==
    /\ handlers_ = << >>
    /\ event_queue_ = << >>
    /\ running_ = FALSE
    /\ stop_requested_ = FALSE
    /\ worker_thread_ = FALSE
    /\ wpc = "none"
    /\ event = 0
    /\ handlers_copy = << >>
    /\ hidx = 0
    /\ pc = [t \in Callers |-> "idle"]
    /\ terminated = FALSE
    /\ spawned = 0
    /\ exited = 0
    /\ published = 0
    /\ dequeued = << >>
    /\ registryAtPop = [e \in EventIds |-> << >>]
    /\ invoked = [e \in EventIds |-> << >>]
    /\ nStart = 0
    /\ nCalls = 0
    /\ nStop = 0
    /\ stopCall = [t \in Callers |-> NoStop]
    /\ joins = [w \in 1..MaxCalls |-> 0]
    /\ enqAtExit = 0
    /\ subsAtPublish = [e \in EventIds |-> 0]
    /\ enqAtFirstStart = -1
    /\ mutex_ = "free"
    /\ executing = { }
    /\ raised = FALSE
    /\ reentered = FALSE
    /\ publisher = [e \in EventIds |-> 0]
    /\ nSpawnFailures = 0
    /\ destructor = 0
    /\ enqAtDtor = -1
    /\ failed = FALSE

\* SimulatorManager() = default with the member initialisers of
\* SimulatorManager.h:120-123; no simulator has been constructed yet
MgrConstructed ==
    /\ simulators_ = << >>
    /\ threads_ = << >>
    /\ state_ = "Stopped"
    /\ mgr_mutex_ = 0
    /\ sim_stop_ = [s \in SimIds |-> FALSE]
    /\ mpc = [t \in Callers |-> "idle"]
    /\ midx = [t \in Callers |-> 0]
    /\ mend = [t \in Callers |-> 0]
    /\ aborted = FALSE
    /\ invalidated = { }
    /\ nSims = 0
    /\ nMgrCalls = 0
    /\ nThreads = 0
    /\ nStartLost = 0
    /\ ran = [t \in Callers |-> << >>]
    /\ signalled = [t \in Callers |-> << >>]
    /\ joinedIds = { }

\* a freshly constructed bus and manager; the publishing threads are not recorded
Init == Constructed /\ MgrConstructed /\ tracking = FALSE

\* the same with the publishing threads recorded
InitTracked == Constructed /\ MgrConstructed /\ tracking = TRUE

\* ------------------------------------------------------------ primitives

\* a notification that wakes nobody
NotifyOne_lost(p) == p

\* cv_.notify_one(): a worker blocked in cv_.wait is made runnable
NotifyOne(p) == IF p = "waiting" THEN "ready" ELSE p

\* a worker that blocks on entry without testing the predicate
DispatchEntry_block == "waiting"

\* where a new worker begins: cv_.wait(lock, pred) tests the predicate before
\* it blocks (EventBus.cpp:97-100)
DispatchEntry == "ready"

\* a wait that never blocks
WaitPredicate_always == TRUE

\* the predicate of cv_.wait (EventBus.cpp:98-100)
WaitPredicate == event_queue_ # << >> \/ stop_requested_

\* a queue that takes new entries at its head
EmplaceBack_front(q, e) == << e >> \o q

\* event_queue_.emplace_back(std::move(event))
EmplaceBack(q, e) == Append(q, e)

\* event_queue_.front() / event_queue_.pop_front()
Front(q) == Head(q)
\* a pop that leaves the entry in the queue
PopFront_keep(q) == q

PopFront(q) == Tail(q)

\* an abortive exit test: leave as soon as a stop is requested
ExitTest_abort == stop_requested_

\* the exit test of the loop (EventBus.cpp:102)
ExitTest == stop_requested_ /\ event_queue_ = << >>

\* a copy that misses the most recently registered handler
CopyHandlers_short(hs) == IF hs = << >> THEN hs ELSE SubSeq(hs, 1, Len(hs) - 1)

\* handlers_copy = handlers_
CopyHandlers(hs) == hs

\* what stop() stores into running_ after the join (EventBus.cpp:76)
StopRunningValue == FALSE

\* a dispatch loop that calls the handlers last to first
NextHandler_rev(hs, i) == hs[Len(hs) + 1 - i]

\* the range-for over handlers_copy visits it front to back (EventBus.cpp:114)
NextHandler(hs, i) == hs[i]

\* a dispatch loop that iterates the live registry
DispatchList_live == handlers_

\* the list the dispatch loop iterates: the local copy (EventBus.cpp:109, 114)
DispatchList == handlers_copy

\* a worker that keeps its lock while it calls the handlers
LockAfterPop_held == "worker"

\* the owner of mutex_ once the block of EventBus.cpp:96-111 closes: the
\* unique_lock is destroyed before the handlers are called
LockAfterPop == "free"

\* a stop() whose lock covers the join
LockAfterRequest_held == "stopper"

\* the owner of mutex_ once the block of EventBus.cpp:62-69 closes: the
\* lock_guard is destroyed before joinable() and join()
LockAfterRequest == "free"

\* the end of ~EventBus() (EventBus.h:46-48) when thread t returns from the
\* stop() it calls: the members are destroyed, and the destructor of a
\* std::thread that is still joinable calls std::terminate()
Destructed(t) == IF destructor = t /\ ~worker_thread_ THEN -1 ELSE destructor

\* a worker thread created and not yet returned from dispatchLoop
LiveWorkers == spawned - exited

\* ---------------------------------------------------------------- callers

\* a subscribe() that puts the new handler in front of the registered ones
subscribe_front(t) ==
    /\ ~terminated
    /\ mutex_ = "free"
    /\ pc[t] = "idle"
    /\ destructor = 0
    /\ nCalls < MaxCalls
    /\ nCalls' = nCalls + 1
    /\ handlers_' = << Len(handlers_) + 1 >> \o handlers_
    /\ UNCHANGED << event_queue_, running_, stop_requested_, worker_thread_,
                    workerVars, pc, terminated, histVars >>
    /\ UNCHANGED << mutex_, executing, raised, publisher, reentered, nSpawnFailures, tracking,
                    destructor, enqAtDtor, failed >>
    /\ UNCHANGED mgrVars

\* void EventBus::subscribe(HandlerType handler): each call registers a new closure
subscribe(t) ==
    /\ ~terminated
    /\ mutex_ = "free"
    /\ pc[t] = "idle"
    /\ destructor = 0
    /\ nCalls < MaxCalls
    /\ nCalls' = nCalls + 1
    /\ handlers_' = Append(handlers_, Len(handlers_) + 1)
    /\ UNCHANGED << event_queue_, running_, stop_requested_, worker_thread_,
                    workerVars, pc, terminated, histVars >>
    /\ UNCHANGED << mutex_, executing, raised, publisher, reentered, nSpawnFailures, tracking,
                    destructor, enqAtDtor, failed >>
    /\ UNCHANGED mgrVars

\* a publish() that also calls the handlers itself, on the publishing thread
publish_inline(t) ==
    /\ ~terminated
    /\ mutex_ = "free"
    /\ pc[t] = "idle"
    /\ destructor = 0
    /\ nCalls < MaxCalls
    /\ nCalls' = nCalls + 1
    /\ event_queue_' = EmplaceBack(event_queue_, published + 1)
    /\ invoked' = [invoked EXCEPT ![published + 1] = handlers_]
    /\ wpc' = NotifyOne(wpc)
    /\ published' = published + 1
    /\ subsAtPublish' = [subsAtPublish EXCEPT ![published + 1] = Len(handlers_)]
    /\ publisher' = IF tracking THEN [publisher EXCEPT ![published + 1] = t] ELSE publisher
    /\ UNCHANGED << handlers_, running_, stop_requested_, worker_thread_,
                    event, handlers_copy, hidx, pc, terminated, spawned, exited,
                    dequeued, registryAtPop, nStart, nStop, stopCall,
                    joins, enqAtExit, enqAtFirstStart >>
    /\ UNCHANGED << mutex_, executing, raised, reentered, nSpawnFailures, tracking,
                    destructor, enqAtDtor, failed >>
    /\ UNCHANGED mgrVars

\* an append that is not atomic: it overwrites the entry another publisher
\* has just appended
publish_lossy(t) ==
    /\ ~terminated
    /\ mutex_ = "free"
    /\ pc[t] = "idle"
    /\ destructor = 0
    /\ nCalls < MaxCalls
    /\ nCalls' = nCalls + 1
    /\ event_queue_' = IF event_queue_ = << >>
                         THEN << published + 1 >>
                         ELSE [event_queue_ EXCEPT ![Len(event_queue_)] = published + 1]
    /\ wpc' = NotifyOne(wpc)
    /\ published' = published + 1
    /\ subsAtPublish' = [subsAtPublish EXCEPT ![published + 1] = Len(handlers_)]
    /\ publisher' = IF tracking THEN [publisher EXCEPT ![published + 1] = t] ELSE publisher
    /\ UNCHANGED << handlers_, running_, stop_requested_, worker_thread_,
                    event, handlers_copy, hidx, pc, terminated, spawned, exited,
                    dequeued, registryAtPop, invoked, nStart, nStop, stopCall,
                    joins, enqAtExit, enqAtFirstStart >>
    /\ UNCHANGED << mutex_, executing, raised, reentered, nSpawnFailures, tracking,
                    destructor, enqAtDtor, failed >>
    /\ UNCHANGED mgrVars

\* void EventBus::publish(std::unique_ptr<Event::Event> event) noexcept
publish(t) ==
    /\ ~terminated
    /\ mutex_ = "free"
    /\ pc[t] = "idle"
    /\ destructor = 0
    /\ nCalls < MaxCalls
    /\ nCalls' = nCalls + 1
    /\ event_queue_' = EmplaceBack(event_queue_, published + 1)
    /\ wpc' = NotifyOne(wpc)
    /\ published' = published + 1
    /\ subsAtPublish' = [subsAtPublish EXCEPT ![published + 1] = Len(handlers_)]
    /\ publisher' = IF tracking THEN [publisher EXCEPT ![published + 1] = t] ELSE publisher
    /\ UNCHANGED << handlers_, running_, stop_requested_, worker_thread_,
                    event, handlers_copy, hidx, pc, terminated, spawned, exited,
                    dequeued, registryAtPop, invoked, nStart, nStop, stopCall,
                    joins, enqAtExit, enqAtFirstStart >>
    /\ UNCHANGED << mutex_, executing, raised, reentered, nSpawnFailures, tracking,
                    destructor, enqAtDtor, failed >>
    /\ UNCHANGED mgrVars

\* a redundant start() that reports "already running" by an exception
startNoop_throws(t) ==
    /\ ~terminated
    /\ mutex_ = "free"
    /\ pc[t] = "idle"
    /\ destructor = 0
    /\ nCalls < MaxCalls
    /\ nCalls' = nCalls + 1
    /\ running_
    /\ nStart' = nStart + 1
    /\ raised' = TRUE
    /\ UNCHANGED << busVars, workerVars, pc, terminated, spawned, exited,
                    published, dequeued, registryAtPop, invoked,
                    nStop, stopCall, joins, enqAtExit, subsAtPublish, enqAtFirstStart >>
    /\ UNCHANGED << mutex_, executing, reentered, publisher, nSpawnFailures, tracking,
                    destructor, enqAtDtor, failed >>
    /\ UNCHANGED mgrVars

\* a redundant start() that resets the stop request before it returns
startNoop_clears(t) ==
    /\ ~terminated
    /\ mutex_ = "free"
    /\ pc[t] = "idle"
    /\ destructor = 0
    /\ nCalls < MaxCalls
    /\ nCalls' = nCalls + 1
    /\ running_
    /\ nStart' = nStart + 1
    /\ stop_requested_' = FALSE
    /\ UNCHANGED << handlers_, event_queue_, running_, worker_thread_,
                    workerVars, pc, terminated, spawned, exited,
                    published, dequeued, registryAtPop, invoked,
                    nStop, stopCall, joins, enqAtExit, subsAtPublish, enqAtFirstStart >>
    /\ UNCHANGED << mutex_, executing, raised, publisher, reentered, nSpawnFailures, tracking,
                    destructor, enqAtDtor, failed >>
    /\ UNCHANGED mgrVars

\* void EventBus::start(), the branch that returns at "Already running"
startNoop(t) ==
    /\ ~terminated
    /\ mutex_ = "free"
    /\ pc[t] = "idle"
    /\ destructor = 0
    /\ nCalls < MaxCalls
    /\ nCalls' = nCalls + 1
    /\ running_
    /\ nStart' = nStart + 1
    /\ UNCHANGED << busVars, workerVars, pc, terminated, spawned, exited,
                    published, dequeued, registryAtPop, invoked,
                    nStop, stopCall, joins, enqAtExit, subsAtPublish, enqAtFirstStart >>
    /\ UNCHANGED << mutex_, executing, raised, publisher, reentered, nSpawnFailures, tracking,
                    destructor, enqAtDtor, failed >>
    /\ UNCHANGED mgrVars

\* void EventBus::start(), the branch that spawns the worker.  Assigning to a
\* std::thread that is still joinable calls std::terminate(); the new thread
\* has been created by then.
start(t) ==
    /\ ~terminated
    /\ mutex_ = "free"
    /\ pc[t] = "idle"
    /\ destructor = 0
    /\ nCalls < MaxCalls
    /\ nCalls' = nCalls + 1
    /\ ~running_
    /\ nStart' = nStart + 1
    /\ stop_requested_' = FALSE
    /\ running_' = TRUE
    /\ spawned' = spawned + 1
    /\ IF worker_thread_
         THEN /\ terminated' = TRUE
              /\ UNCHANGED << worker_thread_, workerVars >>
         ELSE /\ worker_thread_' = TRUE
              /\ wpc' = DispatchEntry
              /\ event' = 0
              /\ handlers_copy' = << >>
              /\ hidx' = 0
              /\ UNCHANGED terminated
    /\ enqAtFirstStart' = IF spawned = 0 THEN published ELSE enqAtFirstStart
    /\ UNCHANGED << handlers_, event_queue_, pc, exited, published,
                    dequeued, registryAtPop, invoked, nStop, stopCall, joins,
                    enqAtExit, subsAtPublish >>
    /\ UNCHANGED << mutex_, executing, raised, publisher, reentered, nSpawnFailures, tracking,
                    destructor, enqAtDtor, failed >>
    /\ UNCHANGED mgrVars

\* void EventBus::start() when the std::thread constructor throws
\* std::system_error (the system cannot create a thread): the flags are
\* already stored (EventBus.cpp:48-49), worker_thread_ is not assigned, and
\* the exception leaves start(), which is not noexcept
startSpawnFails(t) ==
    /\ ~terminated
    /\ mutex_ = "free"
    /\ pc[t] = "idle"
    /\ destructor = 0
    /\ nSpawnFailures < MaxSpawnFailures
    /\ nSpawnFailures' = nSpawnFailures + 1
    /\ UNCHANGED nCalls
    /\ ~running_
    /\ nStart' = nStart + 1
    /\ stop_requested_' = FALSE
    /\ running_' = TRUE
    /\ raised' = TRUE
    /\ UNCHANGED << handlers_, event_queue_, worker_thread_, workerVars, pc,
                    terminated, spawned, exited, published, dequeued,
                    registryAtPop, invoked, nStop, stopCall, joins, enqAtExit,
                    subsAtPublish, enqAtFirstStart >>
    /\ UNCHANGED << mutex_, executing, reentered, publisher, tracking,
                    destructor, enqAtDtor, failed >>
    /\ UNCHANGED mgrVars

\* ~EventBus() is entered by thread t: no other thread is using the bus, and
\* the body is the call stop()
destructorEnter(t) ==
    /\ ~terminated
    /\ destructor = 0
    /\ \A u \in Callers : pc[u] = "idle"
    /\ nCalls < MaxCalls
    /\ destructor' = t
    /\ enqAtDtor' = published
    /\ UNCHANGED << busVars, workerVars, pc, terminated, histVars, nCalls >>
    /\ UNCHANGED << mutex_, executing, raised, publisher, reentered, nSpawnFailures, tracking,
                    failed >>
    /\ UNCHANGED mgrVars

\* a redundant stop() that raises the stop request before it tests running_
stopNoop_requests(t) ==
    /\ ~terminated
    /\ mutex_ = "free"
    /\ pc[t] = "idle"
    /\ destructor \in { 0, t }
    /\ nCalls < MaxCalls
    /\ nCalls' = nCalls + 1
    /\ ~running_
    /\ nStop' = nStop + 1
    /\ stop_requested_' = TRUE
    /\ stopCall' = [stopCall EXCEPT ![t] =
                      [NoStop EXCEPT !.returned = TRUE, !.noop = TRUE,
                                     !.enqAtCall = published,
                                     !.enqAtReturn = published]]
    /\ UNCHANGED << handlers_, event_queue_, running_, worker_thread_,
                    workerVars, pc,  spawned, exited,
                    published, dequeued, registryAtPop, invoked,
                    nStart, joins, enqAtExit, subsAtPublish, enqAtFirstStart >>
    /\ UNCHANGED << mutex_, executing, raised, publisher, reentered, nSpawnFailures, tracking,
                    enqAtDtor, failed >>
    /\ destructor' = Destructed(t)
    /\ terminated' = (destructor = t /\ worker_thread_)
    /\ UNCHANGED mgrVars

\* void EventBus::stop() noexcept, first critical section, "Not running" branch
stopNoop(t) ==
    /\ ~terminated
    /\ mutex_ = "free"
    /\ pc[t] = "idle"
    /\ destructor \in { 0, t }
    /\ nCalls < MaxCalls
    /\ nCalls' = nCalls + 1
    /\ ~running_
    /\ nStop' = nStop + 1
    /\ stopCall' = [stopCall EXCEPT ![t] =
                      [NoStop EXCEPT !.returned = TRUE, !.noop = TRUE,
                                     !.enqAtCall = published,
                                     !.enqAtReturn = published]]
    /\ UNCHANGED << busVars, workerVars, pc,  spawned, exited,
                    published, dequeued, registryAtPop, invoked,
                    nStart, joins, enqAtExit, subsAtPublish, enqAtFirstStart >>
    /\ UNCHANGED << mutex_, executing, raised, publisher, reentered, nSpawnFailures, tracking,
                    enqAtDtor, failed >>
    /\ destructor' = Destructed(t)
    /\ terminated' = (destructor = t /\ worker_thread_)
    /\ UNCHANGED mgrVars

\* void EventBus::stop() noexcept, first critical section (EventBus.cpp:62-69)
stopRequest(t) ==
    /\ ~terminated
    /\ mutex_ = "free"
    /\ pc[t] = "idle"
    /\ destructor \in { 0, t }
    /\ nCalls < MaxCalls
    /\ nCalls' = nCalls + 1
    /\ running_
    /\ nStop' = nStop + 1
    /\ stop_requested_' = TRUE
    /\ wpc' = NotifyOne(wpc)
    /\ pc' = [pc EXCEPT ![t] = "stop_joinable"]
    /\ stopCall' = [stopCall EXCEPT ![t] =
                      [NoStop EXCEPT !.enqAtCall = published,
                                     !.startsAtCall = nStart]]
    /\ UNCHANGED << handlers_, event_queue_, running_, worker_thread_, event,
                    handlers_copy, hidx, terminated, spawned, exited, published, dequeued, registryAtPop, invoked, nStart, joins,
                    enqAtExit, subsAtPublish, enqAtFirstStart >>
    /\ mutex_' = LockAfterRequest
    /\ UNCHANGED << executing, raised, publisher, reentered, nSpawnFailures, tracking,
                    destructor, enqAtDtor, failed >>
    /\ UNCHANGED mgrVars

\* if (worker_thread_.joinable()), read without the mutex (EventBus.cpp:71)
stopJoinable(t) ==
    /\ ~terminated
    /\ UNCHANGED nCalls
    /\ pc[t] = "stop_joinable"
    /\ pc' = [pc EXCEPT ![t] = IF worker_thread_ THEN "stop_join" ELSE "stop_lock"]
    /\ joins' = IF worker_thread_ THEN [joins EXCEPT ![spawned] = @ + 1] ELSE joins
    /\ UNCHANGED << busVars, workerVars, terminated, spawned, exited, published, dequeued, registryAtPop, invoked, nStart, nStop,
                    stopCall, enqAtExit, subsAtPublish, enqAtFirstStart >>
    /\ UNCHANGED << mutex_, executing, raised, publisher, reentered, nSpawnFailures, tracking,
                    destructor, enqAtDtor, failed >>
    /\ UNCHANGED mgrVars

\* worker_thread_.join() (EventBus.cpp:72): blocks until the worker has
\* returned, then makes the handle non-joinable
stopJoin(t) ==
    /\ ~terminated
    /\ UNCHANGED nCalls
    /\ pc[t] = "stop_join"
    /\ worker_thread_
    /\ wpc = "done"
    /\ worker_thread_' = FALSE
    /\ pc' = [pc EXCEPT ![t] = "stop_lock"]
    /\ stopCall' = [stopCall EXCEPT ![t].joined = TRUE]
    /\ UNCHANGED << handlers_, event_queue_, running_, stop_requested_,
                    workerVars, terminated, spawned, exited, published, dequeued, registryAtPop, invoked, nStart, nStop,
                    joins, enqAtExit, subsAtPublish, enqAtFirstStart >>
    /\ UNCHANGED << mutex_, executing, raised, publisher, reentered, nSpawnFailures, tracking,
                    destructor, enqAtDtor, failed >>
    /\ UNCHANGED mgrVars

\* worker_thread_.join() on a handle another stop() has joined meanwhile:
\* join() on a non-joinable thread throws std::system_error, which in a
\* noexcept function calls std::terminate(); two joins racing on the same
\* handle are undefined, and the second may also return
stopJoinRaced(t) ==
    /\ ~terminated
    /\ UNCHANGED nCalls
    /\ pc[t] = "stop_join"
    /\ ~worker_thread_
    /\ \/ /\ terminated' = TRUE
          /\ UNCHANGED pc
       \/ /\ pc' = [pc EXCEPT ![t] = "stop_lock"]
          /\ UNCHANGED terminated
    /\ UNCHANGED << busVars, workerVars, histVars >>
    /\ UNCHANGED << mutex_, executing, raised, publisher, reentered, nSpawnFailures, tracking,
                    destructor, enqAtDtor, failed >>
    /\ UNCHANGED mgrVars

\* second critical section of stop() (EventBus.cpp:74-77) and return
stopFinish(t) ==
    /\ ~terminated
    /\ mutex_ = "free"
    /\ UNCHANGED nCalls
    /\ pc[t] = "stop_lock"
    /\ running_' = StopRunningValue
    /\ pc' = [pc EXCEPT ![t] = "idle"]
    /\ stopCall' = [stopCall EXCEPT ![t].returned = TRUE,
                                    ![t].enqAtReturn = published,
                                    ![t].startsAtCall = 0]
    /\ UNCHANGED << handlers_, event_queue_, stop_requested_, worker_thread_,
                    workerVars,  spawned, exited, published, dequeued, registryAtPop, invoked, nStart, nStop,
                    joins, enqAtExit, subsAtPublish, enqAtFirstStart >>
    /\ UNCHANGED << mutex_, executing, raised, publisher, reentered, nSpawnFailures, tracking,
                    enqAtDtor, failed >>
    /\ destructor' = Destructed(t)
    /\ terminated' = (destructor = t /\ worker_thread_)
    /\ UNCHANGED mgrVars

\* ----------------------------------------------------------------- worker

\* cv_.wait(lock, pred) with the predicate false: release the mutex and block
workerWait ==
    /\ ~terminated
    /\ mutex_ = "free"
    /\ UNCHANGED nCalls
    /\ wpc = "ready"
    /\ ~WaitPredicate
    /\ wpc' = "waiting"
    /\ UNCHANGED << busVars, event, handlers_copy, hidx, pc, terminated, histVars >>
    /\ UNCHANGED << mutex_, executing, raised, publisher, reentered, nSpawnFailures, tracking,
                    destructor, enqAtDtor, failed >>
    /\ UNCHANGED mgrVars

\* a condition variable may wake without a notification
workerSpuriousWake ==
    /\ ~terminated
    /\ UNCHANGED nCalls
    /\ wpc = "waiting"
    /\ wpc' = "ready"
    /\ UNCHANGED << busVars, event, handlers_copy, hidx, pc, terminated, histVars >>
    /\ UNCHANGED << mutex_, executing, raised, publisher, reentered, nSpawnFailures, tracking,
                    destructor, enqAtDtor, failed >>
    /\ UNCHANGED mgrVars

\* an abortive break: the worker returns as soon as a stop is requested and
\* discards what is still queued
workerExit_discards ==
    /\ ~terminated
    /\ mutex_ = "free"
    /\ UNCHANGED nCalls
    /\ wpc = "ready"
    /\ stop_requested_
    /\ event_queue_' = << >>
    /\ wpc' = "done"
    /\ exited' = exited + 1
    /\ enqAtExit' = published
    /\ UNCHANGED << handlers_, running_, stop_requested_, worker_thread_, event,
                    handlers_copy, hidx, pc, terminated, spawned,
                    published, dequeued, registryAtPop, invoked,
                    nStart, nStop, stopCall, joins, subsAtPublish, enqAtFirstStart >>
    /\ UNCHANGED << mutex_, executing, raised, publisher, reentered, nSpawnFailures, tracking,
                    destructor, enqAtDtor, failed >>
    /\ UNCHANGED mgrVars

\* the break of dispatchLoop (EventBus.cpp:102-104): the worker returns
workerExit ==
    /\ ~terminated
    /\ mutex_ = "free"
    /\ UNCHANGED nCalls
    /\ wpc = "ready"
    /\ WaitPredicate
    /\ ExitTest
    /\ wpc' = "done"
    /\ exited' = exited + 1
    /\ enqAtExit' = published
    /\ UNCHANGED << busVars, event, handlers_copy, hidx, pc, terminated, spawned,
                    published, dequeued, registryAtPop, invoked,
                    nStart, nStop, stopCall, joins, subsAtPublish, enqAtFirstStart >>
    /\ UNCHANGED << mutex_, executing, raised, publisher, reentered, nSpawnFailures, tracking,
                    destructor, enqAtDtor, failed >>
    /\ UNCHANGED mgrVars

\* pop the head and copy the registry in one critical section (EventBus.cpp:106-110)
workerPop ==
    /\ ~terminated
    /\ mutex_ = "free"
    /\ UNCHANGED nCalls
    /\ wpc = "ready"
    /\ WaitPredicate
    /\ ~ExitTest
    /\ IF event_queue_ # << >>
         THEN /\ event' = Front(event_queue_)
              /\ event_queue_' = PopFront(event_queue_)
              /\ handlers_copy' = CopyHandlers(handlers_)
              /\ dequeued' = Append(dequeued, Front(event_queue_))
              /\ registryAtPop' = [registryAtPop EXCEPT ![Front(event_queue_)] = handlers_]
         ELSE /\ event' = 0
              /\ handlers_copy' = << >>
              /\ UNCHANGED << event_queue_, dequeued, registryAtPop >>
    /\ hidx' = 1
    /\ wpc' = "dispatch"
    /\ UNCHANGED << handlers_, running_, stop_requested_, worker_thread_, pc,
                    terminated, spawned, exited, published, invoked,
                    nStart, nStop, stopCall, joins, enqAtExit, subsAtPublish, enqAtFirstStart >>
    /\ mutex_' = LockAfterPop
    /\ UNCHANGED << executing, raised, publisher, reentered, nSpawnFailures, tracking,
                    destructor, enqAtDtor, failed >>
    /\ UNCHANGED mgrVars

\* a dispatch loop that hands the handler to another thread and goes on
workerInvoke_detached ==
    /\ ~terminated
    /\ UNCHANGED nCalls
    /\ wpc = "dispatch"
    /\ event # 0
    /\ hidx <= Len(DispatchList)
    /\ invoked' = [invoked EXCEPT ![event] = Append(@, NextHandler(DispatchList, hidx))]
    /\ executing' = executing \cup { << event, NextHandler(DispatchList, hidx) >> }
    /\ hidx' = hidx + 1
    /\ UNCHANGED << busVars, wpc, event, handlers_copy, pc, terminated, spawned,
                    exited, published, dequeued, registryAtPop,
                    nStart, nStop, stopCall, joins, enqAtExit, subsAtPublish, enqAtFirstStart >>
    /\ UNCHANGED << mutex_, raised, publisher, reentered, nSpawnFailures, tracking,
                    destructor, enqAtDtor, failed >>
    /\ UNCHANGED mgrVars

\* one iteration of `for (const auto& handler : handlers_copy)`: the call
\* handler(*event) on the worker thread (EventBus.cpp:113-117)
workerInvoke ==
    /\ ~terminated
    /\ UNCHANGED nCalls
    /\ wpc = "dispatch"
    /\ event # 0
    /\ hidx <= Len(DispatchList)
    /\ invoked' = [invoked EXCEPT ![event] = Append(@, NextHandler(DispatchList, hidx))]
    /\ executing' = executing \cup { << event, NextHandler(DispatchList, hidx) >> }
    /\ wpc' = "handler"
    /\ UNCHANGED << busVars, event, handlers_copy, hidx, pc, terminated, spawned,
                    exited, published, dequeued, registryAtPop,
                    nStart, nStop, stopCall, joins, enqAtExit, subsAtPublish, enqAtFirstStart >>
    /\ UNCHANGED << mutex_, raised, publisher, reentered, nSpawnFailures, tracking,
                    destructor, enqAtDtor, failed >>
    /\ UNCHANGED mgrVars

\* a handler that calls bus.subscribe() from inside its body: the worker
\* thread runs subscribe() (EventBus.cpp:11-15)
handlerSubscribe ==
    /\ ~terminated
    /\ wpc = "handler"
    /\ mutex_ = "free"
    /\ nCalls < MaxCalls
    /\ nCalls' = nCalls + 1
    /\ handlers_' = Append(handlers_, Len(handlers_) + 1)
    /\ reentered' = TRUE
    /\ UNCHANGED << event_queue_, running_, stop_requested_, worker_thread_,
                    workerVars, pc, terminated, histVars >>
    /\ UNCHANGED << mutex_, executing, raised, publisher, nSpawnFailures, tracking,
                    destructor, enqAtDtor, failed >>
    /\ UNCHANGED mgrVars

\* a handler that calls bus.publish() from inside its body: the worker
\* thread runs publish() (EventBus.cpp:24-32)
handlerPublish ==
    /\ ~terminated
    /\ wpc = "handler"
    /\ mutex_ = "free"
    /\ nCalls < MaxCalls
    /\ nCalls' = nCalls + 1
    /\ event_queue_' = EmplaceBack(event_queue_, published + 1)
    /\ wpc' = NotifyOne(wpc)
    /\ published' = published + 1
    /\ subsAtPublish' = [subsAtPublish EXCEPT ![published + 1] = Len(handlers_)]
    /\ publisher' = IF tracking THEN [publisher EXCEPT ![published + 1] = WorkerThread]
                                ELSE publisher
    /\ reentered' = TRUE
    /\ UNCHANGED << handlers_, running_, stop_requested_, worker_thread_,
                    event, handlers_copy, hidx, pc, terminated, spawned, exited,
                    dequeued, registryAtPop, invoked, nStart, nStop, stopCall,
                    joins, enqAtExit, enqAtFirstStart >>
    /\ UNCHANGED << mutex_, executing, raised, nSpawnFailures, tracking,
                    destructor, enqAtDtor, failed >>
    /\ UNCHANGED mgrVars

\* a dispatch loop that catches what a handler throws and goes on
workerThrow_caught ==
    /\ ~terminated
    /\ UNCHANGED nCalls
    /\ wpc = "handler"
    /\ executing' = executing \ { << event, NextHandler(DispatchList, hidx) >> }
    /\ hidx' = hidx + 1
    /\ wpc' = "dispatch"
    /\ reentered' = FALSE
    /\ failed' = TRUE
    /\ UNCHANGED << busVars, event, handlers_copy, pc, terminated, histVars >>
    /\ UNCHANGED << mutex_, raised, publisher, nSpawnFailures, tracking,
                    destructor, enqAtDtor >>
    /\ UNCHANGED mgrVars

\* the handler leaves by an exception: nothing in the range-for or in
\* dispatchLoop catches it (EventBus.cpp:113-117), so it leaves the thread's
\* function and std::terminate() is called
workerThrow ==
    /\ ~terminated
    /\ UNCHANGED nCalls
    /\ wpc = "handler"
    /\ executing' = executing \ { << event, NextHandler(DispatchList, hidx) >> }
    /\ terminated' = TRUE
    /\ failed' = TRUE
    /\ UNCHANGED << busVars, workerVars, pc, histVars >>
    /\ UNCHANGED << mutex_, raised, publisher, reentered, nSpawnFailures, tracking,
                    destructor, enqAtDtor >>
    /\ UNCHANGED mgrVars

\* the handler returns to the dispatch loop, which advances to the next one
workerReturn ==
    /\ ~terminated
    /\ UNCHANGED nCalls
    /\ wpc = "handler"
    /\ executing' = executing \ { << event, NextHandler(DispatchList, hidx) >> }
    /\ hidx' = hidx + 1
    /\ wpc' = "dispatch"
    /\ reentered' = FALSE
    /\ UNCHANGED << busVars, event, handlers_copy, pc, terminated, histVars >>
    /\ UNCHANGED << mutex_, raised, publisher, nSpawnFailures, tracking,
                    destructor, enqAtDtor, failed >>
    /\ UNCHANGED mgrVars

\* end of the loop body: the locals are destroyed and while (true) iterates
workerLoop ==
    /\ ~terminated
    /\ UNCHANGED nCalls
    /\ wpc = "dispatch"
    /\ event = 0 \/ hidx > Len(DispatchList)
    /\ wpc' = "ready"
    /\ event' = 0
    /\ handlers_copy' = << >>
    /\ hidx' = 0
    /\ UNCHANGED << busVars, pc, terminated, histVars >>
    /\ UNCHANGED << mutex_, executing, raised, publisher, reentered, nSpawnFailures, tracking,
                    destructor, enqAtDtor, failed >>
    /\ UNCHANGED mgrVars

\* ------------------------------------------------------------ specification

\* the steps of the worker that the scheduler must eventually run
WorkerProgress ==
    \/ workerWait
    \/ workerExit
    \/ workerPop
    \/ workerInvoke
    \/ workerReturn
    \/ workerLoop

Next ==
    \/ \E t \in Callers : subscribe(t)
    \/ \E t \in Callers : publish(t)
    \/ \E t \in Callers : startNoop(t)
    \/ \E t \in Callers : start(t)
    \/ \E t \in Callers : startSpawnFails(t)
    \/ \E t \in Callers : destructorEnter(t)
    \/ \E t \in Callers : stopNoop(t)
    \/ \E t \in Callers : stopRequest(t)
    \/ \E t \in Callers : stopJoinable(t)
    \/ \E t \in Callers : stopJoin(t)
    \/ \E t \in Callers : stopJoinRaced(t)
    \/ \E t \in Callers : stopFinish(t)
    \/ handlerSubscribe
    \/ handlerPublish
    \/ workerWait
    \/ workerSpuriousWake
    \/ workerExit
    \/ workerPop
    \/ workerInvoke
    \/ workerReturn
    \/ workerThrow
    \/ workerLoop

Spec == Init /\ [][Next]_vars

\* the same program with the publishing thread of every event recorded
TrackedSpec == InitTracked /\ [][Next]_vars

\* the worker thread is scheduled fairly and handlers return; callers are
\* free to do nothing, and a spurious wake-up is never owed
FairSpec == Init /\ [][Next]_vars /\ WF_vars(WorkerProgress)

\* the steps of thread t inside stop() after its first critical section
StopProgress(t) ==
    \/ stopJoinable(t)
    \/ stopJoin(t)
    \/ stopJoinRaced(t)
    \/ stopFinish(t)

\* the worker and every thread that is inside stop() are scheduled fairly
FairStopSpec ==
    /\ Init /\ [][Next]_vars
    /\ WF_vars(WorkerProgress)
    /\ \A t \in Callers : WF_vars(StopProgress(t))

\* ------------------------------------------------------ SimulatorManager

\* callers whose range-for over simulators_ is in progress
IteratingSimulators == { u \in Callers : mpc[u] \in {"start", "stop_signal"} }

\* callers whose range-for over threads_ is in progress
IteratingThreads == { u \in Callers : mpc[u] \in {"stop_join", "stop_joining"} }

\* state_.compare_exchange_strong(expected = Stopped, Running) succeeds
StartAllWins_always == TRUE
StartAllWins == state_ = "Stopped"

\* state_.compare_exchange_strong(expected = Running, Stopped) succeeds
StopAllWins == state_ = "Running"

\* addSimulator()'s test of state_, made with mutex_ held
AddRefused == state_ = "Running"

\* the std::thread objects of threads_ that are still joinable
Joinable == { k \in 1..Len(threads_) : ~threads_[k].joined }

\* addSimulator() while Running: message on cerr, the simulator is dropped
addSimulatorRefused(t) ==
    /\ ~aborted
    /\ mpc[t] = "idle"
    /\ mgr_mutex_ = 0
    /\ nSims < MaxSims
    /\ AddRefused
    /\ nSims' = nSims + 1
    /\ UNCHANGED << simulators_, threads_, state_, mgr_mutex_, sim_stop_, mpc, midx,
                    mend, aborted, invalidated, nMgrCalls, nThreads, ran, signalled,
                    joinedIds >>
    /\ UNCHANGED ebVars
    /\ nStartLost' = nStartLost

\* addSimulator(): mutex_ taken, state_ found not Running
addSimulatorCheck(t) ==
    /\ ~aborted
    /\ mpc[t] = "idle"
    /\ mgr_mutex_ = 0
    /\ nSims < MaxSims
    /\ ~AddRefused
    /\ nSims' = nSims + 1
    /\ mgr_mutex_' = t
    /\ mpc' = [mpc EXCEPT ![t] = "add"]
    /\ UNCHANGED << simulators_, threads_, state_, sim_stop_, midx, mend, aborted,
                    invalidated, nMgrCalls, nThreads, ran, signalled, joinedIds >>
    /\ UNCHANGED ebVars
    /\ nStartLost' = nStartLost

\* addSimulator(): simulators_.emplace_back(), mutex_ released, return
addSimulatorAppend(t) ==
    /\ ~aborted
    /\ mpc[t] = "add"
    /\ simulators_' = Append(simulators_, nSims)
    /\ invalidated' = invalidated \cup IteratingSimulators
    /\ mgr_mutex_' = 0
    /\ mpc' = [mpc EXCEPT ![t] = "idle"]
    /\ UNCHANGED << threads_, state_, sim_stop_, midx, mend, aborted, nSims,
                    nMgrCalls, nThreads, ran, signalled, joinedIds >>
    /\ UNCHANGED ebVars
    /\ nStartLost' = nStartLost

\* startAll() whose compare-exchange fails: "already running", return
startAllLose(t) ==
    /\ ~aborted
    /\ mpc[t] = "idle"
    /\ nMgrCalls < MaxMgrCalls
    /\ ~StartAllWins
    /\ nMgrCalls' = nMgrCalls + 1
    /\ nStartLost' = nStartLost + 1
    /\ UNCHANGED << simulators_, threads_, state_, mgr_mutex_, sim_stop_, mpc, midx,
                    mend, aborted, invalidated, nSims, nThreads, ran, signalled,
                    joinedIds >>
    /\ UNCHANGED ebVars

\* startAll() whose compare-exchange moves state_ to Running; the range-for
\* over simulators_ begins
startAllWin(t) ==
    /\ ~aborted
    /\ mpc[t] = "idle"
    /\ nMgrCalls < MaxMgrCalls
    /\ StartAllWins
    /\ nMgrCalls' = nMgrCalls + 1
    /\ state_' = "Running"
    /\ mpc' = [mpc EXCEPT ![t] = "start"]
    /\ midx' = [midx EXCEPT ![t] = 1]
    /\ mend' = [mend EXCEPT ![t] = Len(simulators_)]
    /\ ran' = [ran EXCEPT ![t] = << >>]
    /\ UNCHANGED << simulators_, threads_, mgr_mutex_, sim_stop_, aborted,
                    invalidated, nSims, nThreads, signalled, joinedIds >>
    /\ UNCHANGED ebVars
    /\ nStartLost' = nStartLost

\* startAll(): one iteration, threads_.emplace_back of a thread that calls
\* runSimulation() on the simulator
startAllSpawn(t) ==
    /\ ~aborted
    /\ mpc[t] = "start"
    /\ midx[t] <= mend[t]
    /\ threads_' = Append(threads_, [id |-> nThreads + 1, sim |-> simulators_[midx[t]],
                                     pos |-> "check", joined |-> FALSE,
                                     stale |-> sim_stop_[simulators_[midx[t]]]])
    /\ invalidated' = invalidated \cup IteratingThreads
    /\ nThreads' = nThreads + 1
    /\ ran' = [ran EXCEPT ![t] = Append(@, simulators_[midx[t]])]
    /\ midx' = [midx EXCEPT ![t] = @ + 1]
    /\ UNCHANGED << simulators_, state_, mgr_mutex_, sim_stop_, mpc, mend, aborted,
                    nSims, nMgrCalls, signalled, joinedIds >>
    /\ UNCHANGED ebVars
    /\ nStartLost' = nStartLost

\* startAll(): the range-for is over, return
startAllReturn(t) ==
    /\ ~aborted
    /\ mpc[t] = "start"
    /\ midx[t] > mend[t]
    /\ mpc' = [mpc EXCEPT ![t] = "idle"]
    /\ invalidated' = invalidated \ {t}
    /\ UNCHANGED << simulators_, threads_, state_, mgr_mutex_, sim_stop_, midx, mend,
                    aborted, nSims, nMgrCalls, nThreads, ran, signalled, joinedIds >>
    /\ UNCHANGED ebVars
    /\ nStartLost' = nStartLost

\* stopAll() whose compare-exchange fails: return at once
stopAllLose(t) ==
    /\ ~aborted
    /\ mpc[t] = "idle"
    /\ nMgrCalls < MaxMgrCalls
    /\ ~StopAllWins
    /\ nMgrCalls' = nMgrCalls + 1
    /\ UNCHANGED << simulators_, threads_, state_, mgr_mutex_, sim_stop_, mpc, midx,
                    mend, aborted, invalidated, nSims, nThreads, ran, signalled,
                    joinedIds >>
    /\ UNCHANGED ebVars
    /\ nStartLost' = nStartLost

\* stopAll() whose compare-exchange moves state_ to Stopped; the range-for
\* over simulators_ begins
stopAllWin(t) ==
    /\ ~aborted
    /\ mpc[t] = "idle"
    /\ nMgrCalls < MaxMgrCalls
    /\ StopAllWins
    /\ nMgrCalls' = nMgrCalls + 1
    /\ state_' = "Stopped"
    /\ mpc' = [mpc EXCEPT ![t] = "stop_signal"]
    /\ midx' = [midx EXCEPT ![t] = 1]
    /\ mend' = [mend EXCEPT ![t] = Len(simulators_)]
    /\ signalled' = [signalled EXCEPT ![t] = << >>]
    /\ UNCHANGED << simulators_, threads_, mgr_mutex_, sim_stop_, aborted,
                    invalidated, nSims, nThreads, ran, joinedIds >>
    /\ UNCHANGED ebVars
    /\ nStartLost' = nStartLost

\* a stopAll() that clears the stop flag of a simulator it finds set, so that
\* the simulator can be run again
stopAllSignal_toggles(t) ==
    /\ ~aborted
    /\ mpc[t] = "stop_signal"
    /\ midx[t] <= mend[t]
    /\ sim_stop_' = [sim_stop_ EXCEPT ![simulators_[midx[t]]] = ~@]
    /\ signalled' = [signalled EXCEPT ![t] = Append(@, simulators_[midx[t]])]
    /\ midx' = [midx EXCEPT ![t] = @ + 1]
    /\ UNCHANGED << simulators_, threads_, state_, mgr_mutex_, mpc, mend, aborted,
                    invalidated, nSims, nMgrCalls, nThreads, ran, joinedIds >>
    /\ UNCHANGED ebVars
    /\ nStartLost' = nStartLost

\* stopAll(): one iteration of the first loop, simulator->stopSimulation()
stopAllSignal(t) ==
    /\ ~aborted
    /\ mpc[t] = "stop_signal"
    /\ midx[t] <= mend[t]
    /\ sim_stop_' = [sim_stop_ EXCEPT ![simulators_[midx[t]]] = TRUE]
    /\ signalled' = [signalled EXCEPT ![t] = Append(@, simulators_[midx[t]])]
    /\ midx' = [midx EXCEPT ![t] = @ + 1]
    /\ UNCHANGED << simulators_, threads_, state_, mgr_mutex_, mpc, mend, aborted,
                    invalidated, nSims, nMgrCalls, nThreads, ran, joinedIds >>
    /\ UNCHANGED ebVars
    /\ nStartLost' = nStartLost

\* stopAll(): the first loop is over, the range-for over threads_ begins
stopAllBeginJoin(t) ==
    /\ ~aborted
    /\ mpc[t] = "stop_signal"
    /\ midx[t] > mend[t]
    /\ mpc' = [mpc EXCEPT ![t] = "stop_join"]
    /\ midx' = [midx EXCEPT ![t] = 1]
    /\ mend' = [mend EXCEPT ![t] = Len(threads_)]
    /\ invalidated' = invalidated \ {t}
    /\ UNCHANGED << simulators_, threads_, state_, mgr_mutex_, sim_stop_, aborted,
                    nSims, nMgrCalls, nThreads, ran, signalled, joinedIds >>
    /\ UNCHANGED ebVars
    /\ nStartLost' = nStartLost

\* stopAll(): one iteration of the second loop, the test thread.joinable();
\* a slot that is no longer there reads as not joinable
stopAllJoinable(t) ==
    /\ ~aborted
    /\ mpc[t] = "stop_join"
    /\ midx[t] <= mend[t]
    /\ IF midx[t] \in Joinable
          THEN /\ mpc' = [mpc EXCEPT ![t] = "stop_joining"]
               /\ midx' = midx
          ELSE /\ midx' = [midx EXCEPT ![t] = @ + 1]
               /\ mpc' = mpc
    /\ UNCHANGED << simulators_, threads_, state_, mgr_mutex_, sim_stop_, mend,
                    aborted, invalidated, nSims, nMgrCalls, nThreads, ran, signalled,
                    joinedIds >>
    /\ UNCHANGED ebVars
    /\ nStartLost' = nStartLost

\* stopAll(): thread.join() returns once runSimulation() has returned
stopAllJoin(t) ==
    /\ ~aborted
    /\ mpc[t] = "stop_joining"
    /\ midx[t] \in Joinable
    /\ threads_[midx[t]].pos = "returned"
    /\ threads_' = [threads_ EXCEPT ![midx[t]].joined = TRUE]
    /\ joinedIds' = joinedIds \cup {threads_[midx[t]].id}
    /\ mpc' = [mpc EXCEPT ![t] = "stop_join"]
    /\ midx' = [midx EXCEPT ![t] = @ + 1]
    /\ UNCHANGED << simulators_, state_, mgr_mutex_, sim_stop_, mend, aborted,
                    invalidated, nSims, nMgrCalls, nThreads, ran, signalled >>
    /\ UNCHANGED ebVars
    /\ nStartLost' = nStartLost

\* stopAll(): thread.join() on a std::thread that another stopAll() joined
\* or removed after this caller's joinable() test: std::system_error leaves
\* stopAll() or the process crashes
stopAllJoinRaced(t) ==
    /\ ~aborted
    /\ mpc[t] = "stop_joining"
    /\ midx[t] \notin Joinable
    /\ aborted' = TRUE
    /\ UNCHANGED << simulators_, threads_, state_, mgr_mutex_, sim_stop_, mpc, midx,
                    mend, invalidated, nSims, nMgrCalls, nThreads, ran, signalled,
                    joinedIds >>
    /\ UNCHANGED ebVars
    /\ nStartLost' = nStartLost

\* stopAll(): threads_.clear() and return; destroying a joinable std::thread
\* calls std::terminate()
stopAllClear(t) ==
    /\ ~aborted
    /\ mpc[t] = "stop_join"
    /\ midx[t] > mend[t]
    /\ aborted' = (Joinable # { })
    /\ threads_' = << >>
    /\ invalidated' = (invalidated \cup IteratingThreads) \ {t}
    /\ mpc' = [mpc EXCEPT ![t] = "idle"]
    /\ UNCHANGED << simulators_, state_, mgr_mutex_, sim_stop_, midx, mend, nSims,
                    nMgrCalls, nThreads, ran, signalled, joinedIds >>
    /\ UNCHANGED ebVars
    /\ nStartLost' = nStartLost

\* a range-for over a vector that another thread resized: the iterators are
\* invalid and the accesses race, one outcome is a crash (the other outcome
\* is the iteration going on, by the actions above)
iterationCrash(t) ==
    /\ ~aborted
    /\ t \in invalidated
    /\ aborted' = TRUE
    /\ UNCHANGED << simulators_, threads_, state_, mgr_mutex_, sim_stop_, mpc, midx,
                    mend, invalidated, nSims, nMgrCalls, nThreads, ran, signalled,
                    joinedIds >>
    /\ UNCHANGED ebVars
    /\ nStartLost' = nStartLost

\* ------------------------------------------------------ GenericSimulator

\* a loop test that ignores the stop flag
simCheck_deaf(k) ==
    /\ ~aborted
    /\ threads_[k].pos = "check"
    /\ threads_' = [threads_ EXCEPT ![k].pos =
                       "publish"]
    /\ UNCHANGED << simulators_, state_, mgr_mutex_, sim_stop_, mpc, midx, mend,
                    aborted, invalidated, nSims, nMgrCalls, nThreads, ran, signalled,
                    joinedIds >>
    /\ UNCHANGED ebVars
    /\ nStartLost' = nStartLost

\* runSimulation() on the thread in slot k: the loop test
\* while (!stop_requested_.load())
simCheck(k) ==
    /\ ~aborted
    /\ threads_[k].pos = "check"
    /\ threads_' = [threads_ EXCEPT ![k].pos =
                       IF sim_stop_[threads_[k].sim] THEN "returned" ELSE "publish"]
    /\ UNCHANGED << simulators_, state_, mgr_mutex_, sim_stop_, mpc, midx, mend,
                    aborted, invalidated, nSims, nMgrCalls, nThreads, ran, signalled,
                    joinedIds >>
    /\ UNCHANGED ebVars
    /\ nStartLost' = nStartLost

\* runSimulation(): the loop body, recalculate(), publishEvent() on the bus
\* (EventBus::publish) and sleep_for()
simPublish(k) ==
    /\ ~aborted
    /\ ~terminated
    /\ threads_[k].pos = "publish"
    /\ mutex_ = "free"
    /\ nCalls < MaxCalls
    /\ nCalls' = nCalls + 1
    /\ event_queue_' = EmplaceBack(event_queue_, published + 1)
    /\ wpc' = NotifyOne(wpc)
    /\ published' = published + 1
    /\ subsAtPublish' = [subsAtPublish EXCEPT ![published + 1] = Len(handlers_)]
    /\ publisher' = IF tracking
                       THEN [publisher EXCEPT ![published + 1] = WorkerThread + threads_[k].id]
                       ELSE publisher
    /\ threads_' = [threads_ EXCEPT ![k].pos = "check"]
    /\ UNCHANGED << handlers_, running_, stop_requested_, worker_thread_,
                    event, handlers_copy, hidx, pc, terminated, spawned, exited,
                    dequeued, registryAtPop, invoked, nStart, nStop, stopCall,
                    joins, enqAtExit, enqAtFirstStart >>
    /\ UNCHANGED << mutex_, executing, raised, reentered, nSpawnFailures, tracking,
                    destructor, enqAtDtor, failed >>
    /\ UNCHANGED << simulators_, state_, mgr_mutex_, sim_stop_, mpc, midx, mend,
                    aborted, invalidated, nSims, nMgrCalls, nThreads, ran, signalled,
                    joinedIds >>
    /\ nStartLost' = nStartLost

MgrNext ==
    \/ \E t \in Callers : addSimulatorRefused(t)
    \/ \E t \in Callers : addSimulatorCheck(t)
    \/ \E t \in Callers : addSimulatorAppend(t)
    \/ \E t \in Callers : startAllLose(t)
    \/ \E t \in Callers : startAllWin(t)
    \/ \E t \in Callers : startAllSpawn(t)
    \/ \E t \in Callers : startAllReturn(t)
    \/ \E t \in Callers : stopAllLose(t)
    \/ \E t \in Callers : stopAllWin(t)
    \/ \E t \in Callers : stopAllSignal(t)
    \/ \E t \in Callers : stopAllBeginJoin(t)
    \/ \E t \in Callers : stopAllJoinable(t)
    \/ \E t \in Callers : stopAllJoin(t)
    \/ \E t \in Callers : stopAllJoinRaced(t)
    \/ \E t \in Callers : stopAllClear(t)
    \/ \E t \in Callers : iterationCrash(t)
    \/ \E k \in 1..Len(threads_) : simCheck(k)
    \/ \E k \in 1..Len(threads_) : simPublish(k)

\* the manager driven by its callers, its simulators publishing to a bus
\* that is not started
MgrSpec == Init /\ [][MgrNext]_vars

\* ------------------------------------------------------------------ main

\* the thread that runs main()
MainThread == 1

\* a main() that calls event_bus.stop() before simulator_manager.stopAll()
MainMayStop_early ==
    nMgrCalls = 1 /\ mpc[MainThread] = "idle" /\ nStop = 0

\* main() is at event_bus.stop() (main.cpp:52): stopAll() has returned
MainMayStop ==
    nMgrCalls = 2 /\ mpc[MainThread] = "idle" /\ nStop = 0

\* main() (main.cpp:20-55): the main thread adds the simulators, constructs
\* the consumer (which subscribes its one handler), starts the bus, starts
\* the simulators, and after the wait calls stopAll() and then stop(); each
\* call begins when the one before it has returned.  The worker and the
\* simulator threads run alongside.
MainNext ==
    \/ handlers_ = << >> /\ addSimulatorCheck(MainThread)
    \/ addSimulatorAppend(MainThread)
    \/ /\ nSims = MaxSims /\ mpc[MainThread] = "idle" /\ handlers_ = << >>
       /\ subscribe(MainThread)
    \/ handlers_ # << >> /\ nStart = 0 /\ start(MainThread)
    \/ nStart = 1 /\ nMgrCalls = 0 /\ startAllWin(MainThread)
    \/ startAllSpawn(MainThread)
    \/ startAllReturn(MainThread)
    \/ nMgrCalls = 1 /\ stopAllWin(MainThread)
    \/ stopAllSignal(MainThread)
    \/ stopAllBeginJoin(MainThread)
    \/ stopAllJoinable(MainThread)
    \/ stopAllJoin(MainThread)
    \/ stopAllClear(MainThread)
    \/ MainMayStop /\ stopRequest(MainThread)
    \/ stopJoinable(MainThread)
    \/ stopJoin(MainThread)
    \/ stopFinish(MainThread)
    \/ workerWait
    \/ workerSpuriousWake
    \/ workerExit
    \/ workerPop
    \/ workerInvoke
    \/ workerReturn
    \/ workerLoop
    \/ \E k \in 1..Len(threads_) : simCheck(k)
    \/ \E k \in 1..Len(threads_) : simPublish(k)

\* the program of main.cpp
MainSpec == Init /\ [][MainNext]_vars

\* ------------------------------------------------------------- properties

Range(f) == { f[i] : i \in DOMAIN f }
IsPrefix(a, b) == Len(a) <= Len(b) /\ \A i \in 1..Len(a) : a[i] = b[i]
NoDuplicates(q) == \A i, j \in 1..Len(q) : q[i] = q[j] => i = j

\* the worker popped e and has finished the loop body for it
Done(e) == e \in Range(dequeued) /\ event # e

\* e was handed to every handler of the registry as it was when e was popped
FullyDelivered(e) == Done(e) /\ invoked[e] = registryAtPop[e]

\* C1: events are popped and delivered in exactly the order publish() appended
\* them (event ids are assigned in append order under the mutex); no event is
\* handed to a handler before every earlier-enqueued event has been completed.
C1_FifoDelivery ==
    /\ \A i \in 1..Len(dequeued) : dequeued[i] = i
    /\ \A e \in EventIds : invoked[e] # << >> => e \in Range(dequeued)
    /\ \A e \in EventIds : \A d \in EventIds :
          (d < e /\ e \in Range(dequeued)) => Done(d)

C1_Witness ==
    /\ Len(dequeued) >= 2
    /\ running_
    /\ invoked[2] # << >>

\* C2: for every popped event, the handlers invoked so far are a duplicate-free
\* prefix of the registry as it was at the pop; once the worker has finished
\* the event each of those handlers, including the ones subscribed after the
\* event was published, has been invoked exactly once.
C2_ExactlyOncePerHandler ==
    \A e \in EventIds :
        /\ NoDuplicates(invoked[e])
        /\ IsPrefix(invoked[e], registryAtPop[e])
        /\ Done(e) => invoked[e] = registryAtPop[e]
        /\ e \in Range(dequeued) => Len(registryAtPop[e]) >= subsAtPublish[e]

C2_Witness ==
    \E e \in EventIds :
        /\ Done(e)
        /\ Len(registryAtPop[e]) = 2
        /\ subsAtPublish[e] < 2
        /\ Len(invoked[e]) = 2

\* C3: when a stop() call that found running_ true returns, every event that
\* was enqueued before the call has been fully delivered.
C3_DrainOnStop ==
    \A t \in Callers :
        (stopCall[t].returned /\ ~stopCall[t].noop) =>
            \A e \in 1..stopCall[t].enqAtCall : FullyDelivered(e)

\* C4 as stated: when a stop() call that found running_ true returns, every
\* event enqueued before that return has been fully delivered.
C4_EnqueuedBeforeReturnDelivered ==
    \A t \in Callers :
        (stopCall[t].returned /\ ~stopCall[t].noop) =>
            \A e \in 1..stopCall[t].enqAtReturn : FullyDelivered(e)

\* C4 amended: when a stop() call that found running_ true returns, every
\* event enqueued before the most recent worker left its loop has been fully
\* delivered.
C4_EnqueuedBeforeExitDelivered ==
    /\ \A e \in 1..enqAtExit : FullyDelivered(e)
    /\ \A t \in Callers :
          (stopCall[t].returned /\ ~stopCall[t].noop) =>
              \A e \in 1..stopCall[t].enqAtReturn :
                  e <= enqAtExit => FullyDelivered(e)

C4_Witness ==
    \E t \in Callers :
        /\ stopCall[t].returned
        /\ ~stopCall[t].noop
        /\ stopCall[t].joined
        /\ enqAtExit >= 1
        /\ stopCall[t].enqAtReturn > enqAtExit
        /\ stopCall[t].enqAtCall < enqAtExit

\* the number of places an event is held in
Places(e) ==
    Cardinality({ i \in 1..Len(event_queue_) : event_queue_[i] = e })
      + (IF event = e THEN 1 ELSE 0)
      + (IF Done(e) THEN 1 ELSE 0)

\* C5: every published event is in exactly one place (one queue entry, in
\* flight in the worker, or delivered), events not yet published are nowhere,
\* and the queue changes only by an append at the tail or by the worker
\* popping its head for delivery.
C5_NoDropNoDuplicate ==
    /\ [](\A e \in EventIds : Places(e) = IF e <= published THEN 1 ELSE 0)
    /\ [][ event_queue_' # event_queue_ =>
             \/ /\ published' = published + 1
                /\ event_queue_' = Append(event_queue_, published')
             \/ /\ event_queue_ # << >>
                /\ event_queue_' = Tail(event_queue_)
                /\ wpc = "ready" /\ wpc' = "dispatch"
                /\ event' = Head(event_queue_) ]_vars

C5_Witness ==
    /\ published = 2
    /\ Len(event_queue_) = 1
    /\ event # 0
    /\ hidx = 2

\* C6: once the broker has been started, every enqueued event is eventually
\* popped and handed to all its handlers, unless stop() is called.
C6_EventualDelivery ==
    \A e \in EventIds :
        (e <= published /\ spawned >= 1) ~> (FullyDelivered(e) \/ nStop > 0 \/ failed)

C6_Witness ==
    /\ nStop = 0
    /\ spawned = 1
    /\ published = 2
    /\ FullyDelivered(2)
    /\ Len(invoked[2]) >= 1
    /\ enqAtFirstStart = 0

\* C7: while no worker has ever been spawned the published events all stay in
\* the queue in publish order; once start() has spawned the first worker they
\* are all eventually delivered, and they are popped in publish order.
C7_NoLossBeforeStart ==
    /\ [](spawned = 0 => event_queue_ = [i \in 1..published |-> i])
    /\ \A e \in EventIds :
          (spawned >= 1 /\ e <= enqAtFirstStart) ~> (FullyDelivered(e) \/ failed)
    /\ [](\A i \in 1..Len(dequeued) :
            dequeued[i] <= enqAtFirstStart => dequeued[i] = i)

C7_Witness ==
    /\ enqAtFirstStart = 2
    /\ FullyDelivered(1) /\ FullyDelivered(2)
    /\ Len(invoked[2]) >= 1
    /\ dequeued = << 1, 2 >>

\* C8: at most one dispatch worker (spawned and not yet returned) exists.
C8_AtMostOneWorker == LiveWorkers <= 1

\* C9: worker_thread_.join() is begun at most once on each worker, and no
\* stop() aborts the process.
C9_JoinedExactlyOnce ==
    /\ \A w \in DOMAIN joins : joins[w] <= 1
    /\ ~(terminated /\ \E t \in Callers : pc[t] = "stop_join")

\* C10: a worker exists iff running_, and running_ changes only false->true
\* in start() and true->false in stop().
C10_LifecycleInvariant ==
    /\ [](running_ <=> LiveWorkers >= 1)
    /\ [][ running_' # running_ =>
             \/ ~running_ /\ nStart' = nStart + 1
             \/ running_ /\ \E t \in Callers :
                               pc[t] = "stop_lock" /\ pc'[t] = "idle" ]_vars

\* C11: a stop() call that found running_ true returns only when no worker is
\* left, and no handler is invoked from such a return until the next start()
\* (the time during which running_ is false).
C11_StopReturnsAfterWorkerExit ==
    /\ [][ (\E t \in Callers : pc[t] = "stop_lock" /\ pc'[t] = "idle") =>
             (LiveWorkers' = 0 /\ wpc' \in { "none", "done" }) ]_vars
    /\ [][ invoked' # invoked => running_ ]_vars

\* C12: a stop() call that finds running_ false returns in the same step and
\* leaves the queue, the registry, both flags and the worker untouched.
C12_StopWhileStoppedIsNoop ==
    [][ (nStop' = nStop + 1 /\ ~running_) =>
          /\ UNCHANGED << event_queue_, handlers_, running_, stop_requested_ >>
          /\ UNCHANGED << worker_thread_, workerVars, spawned, exited >>
          /\ pc' = pc ]_vars

C12_Witness ==
    \E t \in Callers :
        /\ stopCall[t].returned /\ stopCall[t].noop
        /\ pc[t] = "idle"
        /\ ~running_
        /\ exited >= 1
        /\ stop_requested_
        /\ event_queue_ # << >>
        /\ handlers_ # << >>

\* C13: a start() call that finds running_ true returns in the same step,
\* spawns nothing and leaves the queue, the registry, both flags (also a
\* stop request already made) and the worker untouched.
C13_StartWhileRunningIsNoop ==
    [][ (nStart' = nStart + 1 /\ running_) =>
          /\ UNCHANGED << event_queue_, handlers_, running_, stop_requested_ >>
          /\ UNCHANGED << worker_thread_, workerVars, spawned, exited >>
          /\ pc' = pc ]_vars

C13_Witness ==
    \E t \in Callers :
        /\ pc[t] = "stop_join"
        /\ nStart > stopCall[t].startsAtCall
        /\ spawned = 1
        /\ stop_requested_
        /\ running_
        /\ event_queue_ # << >>

\* C14: for each event the handlers are begun in subscription order (handler
\* ids are assigned in the order of the subscribe() calls), and a handler that
\* has not returned is the one begun last: every handler begun before it for
\* that event has returned.
C14_HandlersInSubscriptionOrder ==
    /\ \A e \in EventIds : \A i \in 1..Len(invoked[e]) : \A j \in 1..Len(invoked[e]) :
          i < j => invoked[e][i] < invoked[e][j]
    /\ \A x \in executing :
          /\ invoked[x[1]] # << >>
          /\ x[2] = invoked[x[1]][Len(invoked[x[1]])]

C14_Witness ==
    \E e \in EventIds :
        /\ Done(e)
        /\ registryAtPop[e] = << 1, 2, 3 >>
        /\ invoked[e] = << 1, 2, 3 >>
        /\ executing = { }

\* C15: at most one handler executes at a time and it executes for the event
\* in flight; while a handler executes no event is dequeued and no handler is
\* begun; an event is dequeued only when every event dequeued before it has
\* been handed to all the handlers of its snapshot.
C15_SerialDispatch ==
    /\ [](Cardinality(executing) <= 1)
    /\ [](\A x \in executing : wpc = "handler" /\ x[1] = event)
    /\ [][ executing # { } => (dequeued' = dequeued /\ invoked' = invoked) ]_vars
    /\ [][ dequeued' # dequeued =>
             \A d \in Range(dequeued) : FullyDelivered(d) ]_vars

C15_Witness ==
    /\ executing # { }
    /\ Len(dequeued) = 2
    /\ FullyDelivered(1)
    /\ invoked[1] # << >>
    /\ event = 2
    /\ event_queue_ # << >>

\* C16: the list the worker iterates for the event in flight is the registry
\* as it was when the event was popped; only handlers of that registry are
\* invoked for the event, and an event whose delivery is over was handed to
\* exactly them, whatever was subscribed after the pop.
C16_SnapshotIsolation ==
    /\ event # 0 => DispatchList = registryAtPop[event]
    /\ \A e \in EventIds : \A i \in 1..Len(invoked[e]) :
          invoked[e][i] \in Range(registryAtPop[e])
    /\ \A e \in EventIds : Done(e) => invoked[e] = registryAtPop[e]

C16_Witness ==
    /\ wpc = "dispatch"
    /\ event # 0
    /\ Len(registryAtPop[event]) >= 1
    /\ hidx > Len(registryAtPop[event])
    /\ invoked[event] = registryAtPop[event]
    /\ Len(handlers_) > Len(registryAtPop[event])

\* C17: the worker does not own the mutex while a handler executes, and a
\* handler that calls subscribe() or publish() is able to take that step.
C17_NoLockDuringHandler ==
    /\ wpc = "handler" => mutex_ # "worker"
    /\ (wpc = "handler" /\ ~terminated /\ nCalls < MaxCalls) =>
          (ENABLED handlerSubscribe /\ ENABLED handlerPublish)

C17_Witness ==
    /\ wpc = "handler"
    /\ reentered
    /\ executing # { }
    /\ Len(handlers_) > Len(handlers_copy)
    /\ event_queue_ # << >>

\* C18: on a bus that is not being destroyed, a thread that is not inside
\* stop() can always take its publish(), subscribe() or start() step, whatever
\* the worker, a handler or a thread inside stop() is doing, and the call is
\* over with that one step.
C18_CallersNeverWait ==
    /\ [](\A t \in Callers :
            (pc[t] = "idle" /\ destructor = 0 /\ ~terminated /\ nCalls < MaxCalls) =>
                /\ ENABLED publish(t)
                /\ ENABLED subscribe(t)
                /\ ENABLED (start(t) \/ startNoop(t)))
    /\ [][ (published' # published \/ handlers_' # handlers_ \/ nStart' # nStart) =>
             pc' = pc ]_vars

C18_Witness ==
    \E t \in Callers :
        /\ pc[t] = "stop_join"
        /\ wpc = "handler"
        /\ executing # { }
        /\ published > stopCall[t].enqAtCall
        /\ event_queue_ # << >>

\* how many times handler h has been invoked, over all events
InvocationCount(h) ==
    Cardinality({ x \in EventIds \X (1..MaxCalls) :
                    x[2] <= Len(invoked[x[1]]) /\ invoked[x[1]][x[2]] = h })

\* C19: whichever threads published, no event is dequeued twice; once the
\* queue has drained and no event is in flight, every handler subscribed
\* before the first publish() has been invoked once per publish() call; and
\* two events of one publisher are dequeued in the order they were published.
C19_ConcurrentPublishers ==
    /\ NoDuplicates(dequeued)
    /\ (event_queue_ = << >> /\ event = 0) =>
          \A h \in Range(handlers_) :
              (\A e \in 1..published : h <= subsAtPublish[e]) =>
                  InvocationCount(h) = published
    /\ \A i \in 1..Len(dequeued) : \A j \in 1..Len(dequeued) :
          (i < j /\ publisher[dequeued[i]] = publisher[dequeued[j]]) =>
              dequeued[i] < dequeued[j]

C19_Witness ==
    /\ running_
    /\ event_queue_ = << >>
    /\ event = 0
    /\ published = 3
    /\ publisher[1] \in Callers
    /\ publisher[2] \in Callers \ { publisher[1] }
    /\ publisher[3] = publisher[1]
    /\ InvocationCount(1) = 3

\* C20: start() while running_ is true, stop() while running_ is false (called
\* as a method, not as the body of the destructor), and subscribe() or
\* publish() while some thread is inside stop() return to their caller: the
\* step raises nothing, ends nothing and leaves no caller inside a call it
\* was not in.
C20_NoErrorToCaller ==
    [][ (\/ nStart' = nStart + 1 /\ running_
         \/ nStop' = nStop + 1 /\ ~running_ /\ destructor = 0
         \/ /\ handlers_' # handlers_ \/ published' # published
            /\ \E t \in Callers : pc[t] # "idle") =>
          (raised' = raised /\ terminated' = terminated /\ pc' = pc) ]_vars

C20_Witness ==
    \E t \in Callers :
        /\ pc[t] = "stop_join"
        /\ ~raised
        /\ ~terminated
        /\ published > stopCall[t].enqAtCall
        /\ nStart > stopCall[t].startsAtCall
        /\ \E u \in Callers : stopCall[u].returned /\ stopCall[u].noop

\* C21: when ~EventBus() has completed, every event that was queued when the
\* destructor was entered has been handed to the handlers and no worker thread
\* is left unjoined.
C21_DestructorDrainsAndJoins ==
    destructor = -1 =>
        /\ \A e \in 1..enqAtDtor : FullyDelivered(e)
        /\ LiveWorkers = 0
        /\ ~worker_thread_

\* C22: once a handler has left by an exception the process is gone: no
\* handler is invoked and no event is dequeued from then on, so the handlers
\* after it in the snapshot and the events still queued or published later
\* get nothing.
C22_FailStopOnHandlerFailure ==
    /\ [](failed => terminated)
    /\ [][ failed' => (invoked' = invoked /\ dequeued' = dequeued) ]_vars

C22_Witness ==
    /\ failed
    /\ event # 0
    /\ Len(invoked[event]) < Len(handlers_copy)
    /\ event_queue_ # << >>

\* C27: a worker returns from its loop only in a step taken with a stop
\* requested and the queue empty; while the queue is empty and no stop is
\* requested no worker returns and nothing is dequeued, and a worker that is
\* at its wait stays there.
C27_WorkerExitCondition ==
    /\ [][ exited' # exited =>
             (stop_requested_ /\ event_queue_ = << >> /\ event_queue_' = << >>) ]_vars
    /\ [][ (event_queue_ = << >> /\ ~stop_requested_) =>
             /\ exited' = exited
             /\ dequeued' = dequeued
             /\ wpc \in { "ready", "waiting" } => wpc' \in { "ready", "waiting" } ]_vars

C27_Witness ==
    /\ exited = 1
    /\ Len(dequeued) = 2
    /\ event_queue_ = << >>
    /\ \E t \in Callers :
          /\ stopCall[t].joined
          /\ stopCall[t].enqAtCall <= 1

\* C28: a thread that is inside stop() eventually returns from it, unless the
\* process has been ended by std::terminate() meanwhile (a handler that left
\* by an exception, or a second join() on the worker's handle).
C28_StopEventuallyReturns ==
    \A t \in Callers : (pc[t] # "idle") ~> (pc[t] = "idle" \/ terminated)

\* C29: a start() made after a stop() has returned, on a bus whose running_ is
\* false, clears the stop request and leaves exactly one fresh worker running
\* (thread creation succeeding); a worker returns only with a stop requested;
\* and while no worker is alive the queue only grows at its tail, so what was
\* published meanwhile is still there, in order, for the next worker.
C29_Restart ==
    /\ [][ (/\ nStart' = nStart + 1
            /\ ~running_
            /\ nSpawnFailures' = nSpawnFailures
            /\ \E t \in Callers : stopCall[t].returned /\ ~stopCall[t].noop) =>
             (/\ ~terminated'
              /\ spawned' = spawned + 1
              /\ LiveWorkers' = 1
              /\ wpc' = DispatchEntry
              /\ running_'
              /\ ~stop_requested_') ]_vars
    /\ [][ exited' # exited => stop_requested_ ]_vars
    /\ [][ LiveWorkers = 0 =>
             (dequeued' = dequeued /\ IsPrefix(event_queue_, event_queue_')) ]_vars

\* C30: a handler is begun only by a step of the dispatch loop of the one
\* live worker: that step is no subscribe(), publish(), start() or stop()
\* step of a calling thread, and while a handler executes a worker exists.
C30_HandlersOnWorkerOnly ==
    /\ [][ invoked' # invoked =>
             /\ wpc = "dispatch" /\ wpc' = "handler"
             /\ LiveWorkers = 1
             /\ nCalls' = nCalls /\ pc' = pc
             /\ published' = published /\ handlers_' = handlers_
             /\ nStart' = nStart /\ nStop' = nStop ]_vars
    /\ [](executing # { } => (LiveWorkers >= 1 /\ wpc = "handler"))

C30_Witness ==
    /\ executing # { }
    /\ LiveWorkers = 1
    /\ \E t \in Callers : pc[t] = "stop_join"
    /\ \E t \in Callers : pc[t] = "idle" /\ published > stopCall[t].enqAtCall

\* C23: the startAll() that moved the manager to Running has, when it returns,
\* given exactly one thread to each managed simulator, in order; the stopAll()
\* that moved it back to Stopped has, when it returns, called stopSimulation()
\* exactly once on each managed simulator and leaves no thread of threads_
\* unjoined; and once every call has returned with the manager Stopped, every
\* thread the manager created has been joined.
C23_FanOutFanIn ==
    /\ [][ \A t \in Callers :
              (mpc[t] = "start" /\ mpc'[t] = "idle") => ran[t] = simulators_ ]_vars
    /\ [][ \A t \in Callers :
              (mpc[t] = "stop_join" /\ mpc'[t] = "idle")
                 => (signalled[t] = simulators_ /\ Joinable = { }) ]_vars
    /\ []( ((\A t \in Callers : mpc[t] = "idle") /\ state_ = "Stopped" /\ ~aborted)
              => joinedIds = 1..nThreads )

\* C24: simulators_ grows only in a step taken while state_ is Stopped, and an
\* addSimulator() that finds state_ Running returns with simulators_ as it was.
C24_NoAddWhileRunning ==
    /\ [][ simulators_' # simulators_ => state_ = "Stopped" ]_vars
    /\ [][ (nSims' # nSims /\ state_ = "Running")
              => (simulators_' = simulators_ /\ mpc' = mpc /\ mgr_mutex_' = mgr_mutex_) ]_vars

\* C25: a startAll() called while state_ is Running returns at once, creating
\* no thread; a caller enters the spawning loop only by the step that moved
\* state_ from Stopped to Running; threads are created only by a caller in
\* that loop, and one startAll() gives no simulator a second thread.
C25_StartAllIdempotent ==
    /\ [][ (nMgrCalls' # nMgrCalls /\ state_ = "Running" /\ state_' = "Running")
              => (threads_' = threads_ /\ nThreads' = nThreads /\ mpc' = mpc
                  /\ ran' = ran /\ simulators_' = simulators_) ]_vars
    /\ [][ \A t \in Callers :
              (mpc[t] # "start" /\ mpc'[t] = "start")
                 => (state_ = "Stopped" /\ state_' = "Running") ]_vars
    /\ [][ nThreads' # nThreads
              => \E t \in Callers : /\ mpc[t] = "start"
                                    /\ midx[t] <= Len(simulators_)
                                    /\ ran'[t] = Append(ran[t], simulators_[midx[t]])
                                    /\ nThreads' = nThreads + 1 ]_vars
    /\ [](\A t \in Callers : NoDuplicates(ran[t]))

\* a second thread called startAll() while the first was still creating
\* threads, and the first went on to give each simulator its one thread
C25_Witness ==
    /\ nStartLost >= 1
    /\ state_ = "Running"
    /\ Len(simulators_) = 2
    /\ \E t \in Callers : mpc[t] = "idle" /\ ran[t] = simulators_
    /\ Len(threads_) = 2
    /\ \A t \in Callers : signalled[t] = << >>

\* C26: when a stopAll() returns - the one that moved state_ to Stopped, after
\* threads_.clear(), or one that found the manager not running - the process
\* is alive, state_ is Stopped and every thread the manager holds has left
\* runSimulation(); and a stopAll() that found the manager not running
\* returned in that step without calling stopSimulation().
C26_StopAllPostcondition ==
    /\ [][ ( \/ \E t \in Callers : mpc[t] = "stop_join" /\ mpc'[t] = "idle"
             \/ nMgrCalls' # nMgrCalls /\ state_ = "Stopped" /\ state_' = "Stopped" )
              => /\ ~aborted'
                 /\ state_' = "Stopped"
                 /\ \A k \in 1..Len(threads_) : threads_[k].pos = "returned" ]_vars
    /\ [][ (nMgrCalls' # nMgrCalls /\ state_ = "Stopped" /\ state_' = "Stopped")
              => (sim_stop_' = sim_stop_ /\ signalled' = signalled /\ mpc' = mpc
                  /\ threads_' = threads_) ]_vars

\* the positions of a caller inside stop() that lie between its two
\* lock_guard scopes (EventBus.cpp:70-73)
OutsideLock == { "stop_joinable", "stop_join" }

\* C31: a step a caller takes from a position outside every lock scope leaves
\* the shared state of the bus - queue, registry, lifecycle flags and the
\* worker-thread handle - as it was; every change of that state belongs to a
\* critical section.
C31_SingleExclusionDiscipline ==
    [][ (\E t \in Callers : pc[t] \in OutsideLock /\ pc'[t] # pc[t])
           => /\ event_queue_' = event_queue_
              /\ handlers_' = handlers_
              /\ running_' = running_
              /\ stop_requested_' = stop_requested_
              /\ worker_thread_' = worker_thread_ ]_vars

\* C32: every step leaves the registered handlers where they are and at most
\* appends one at the end; the step that appends neither raises an error nor
\* ends the process; and a thread that is not inside stop() can take its
\* subscribe() step whether the bus is stopped, running or being stopped by
\* another thread.
C32_RegistryOnlyGrows ==
    /\ [][ IsPrefix(handlers_, handlers_') ]_vars
    /\ [][ handlers_' # handlers_
              => /\ Len(handlers_') = Len(handlers_) + 1
                 /\ raised' = raised
                 /\ terminated' = terminated ]_vars
    /\ [](\A t \in Callers :
            (pc[t] = "idle" /\ destructor = 0 /\ ~terminated /\ nCalls < MaxCalls)
               => ENABLED subscribe(t))

\* a handler was registered while another thread's stop() was waiting for the
\* worker, after the worker had copied the registry for an event published
\* during that stop()
C32_Witness ==
    \E t \in Callers :
        /\ pc[t] = "stop_join"
        /\ stop_requested_
        /\ event > stopCall[t].enqAtCall
        /\ handlers_copy # << >>
        /\ Len(handlers_) > Len(handlers_copy)
        /\ IsPrefix(handlers_copy, handlers_)

\* C33: when the only stop() call ever made returns, and a start() was invoked
\* while it was in progress (no thread creation having failed), the bus is
\* running and one worker is alive.
C33_StartDuringStop ==
    [][ \A t \in Callers :
           ( /\ pc[t] = "stop_lock" /\ pc'[t] = "idle"
             /\ nStop = 1
             /\ nSpawnFailures = 0
             /\ nStart > stopCall[t].startsAtCall )
              => (running_' /\ LiveWorkers' = 1 /\ ~terminated') ]_vars

\* C34: the worker is never blocked in cv_.wait while the queue is non-empty
\* or a stop has been requested; a step that makes the wait predicate true
\* does not leave the worker blocked.
C34_NoLostWakeup ==
    /\ [](wpc = "waiting" => (event_queue_ = << >> /\ ~stop_requested_))
    /\ [][ ((event_queue_' # << >> \/ stop_requested_')
              /\ event_queue_ = << >> /\ ~stop_requested_)
              => wpc' # "waiting" ]_vars

\* the worker is blocked after having delivered an event, and both an enqueue
\* and a stop request would make it runnable
C34_Witness ==
    /\ wpc = "waiting"
    /\ dequeued # << >>
    /\ \E t \in Callers : ENABLED (stopRequest(t) /\ wpc' = "ready")
    /\ \E t \in Callers : ENABLED (publish(t) /\ wpc' = "ready")

\* C35: a start() whose thread creation fails leaves the bus stopped with no
\* worker and no worker handle, and the stop request flag as it was.
C35_SpawnFailureLeavesStopped ==
    [][ nSpawnFailures' # nSpawnFailures
           => /\ ~running_'
              /\ ~worker_thread_'
              /\ LiveWorkers' = 0
              /\ stop_requested_' = stop_requested_ ]_vars

\* C36: when the worker leaves its loop every event published up to then,
\* those enqueued after the stop request included, has been handed to all
\* handlers; and when a stop() call that found the bus running returns, every
\* event enqueued between its stop request and the worker's last look at the
\* queue has been delivered.
C36_DrainCoversLateWork ==
    /\ [][ exited' # exited
              => \A e \in 1..published : FullyDelivered(e) /\ e \notin Range(event_queue_) ]_vars
    /\ [][ \A t \in Callers :
              (pc[t] = "stop_lock" /\ pc'[t] = "idle")
                 => \A e \in EventIds :
                       (stopCall[t].enqAtCall < e /\ e <= enqAtExit) => FullyDelivered(e) ]_vars

\* a stop() has returned after joining the worker, and an event that a handler
\* or another thread enqueued after that stop() was requested had been
\* handed to a handler before the worker left
C36_Witness ==
    \E t \in Callers :
        /\ stopCall[t].returned
        /\ stopCall[t].joined
        /\ ~terminated
        /\ stopCall[t].enqAtCall >= 1
        /\ enqAtExit > stopCall[t].enqAtCall
        /\ invoked[enqAtExit] # << >>
        /\ FullyDelivered(enqAtExit)

\* C37: a step that removes thread handles from threads_ removes only handles
\* whose thread has been joined, and does not end the process.
C37_JoinedBeforeRemoved ==
    [][ Len(threads_') < Len(threads_)
           => /\ \A k \in 1..Len(threads_) : threads_[k].joined
              /\ \A k \in 1..Len(threads_) : threads_[k].id \in joinedIds
              /\ ~aborted' ]_vars

\* C38: once a simulator's stop flag is set, a thread inside its
\* runSimulation() has at most the publish of the iteration under way before
\* it: the publish leads to the loop test, the loop test with the flag set
\* leads to the return and nowhere else, the flag stays set meanwhile, and a
\* thread that has returned stays so.  The stopSimulation() step of stopAll()
\* can always be taken, whatever the simulator threads are doing.
C38_ProducerHonorsStop ==
    /\ [][ \A k \in 1..Len(threads_) :
              (k <= Len(threads_') /\ threads_'[k].id = threads_[k].id
                 /\ threads_'[k].pos # threads_[k].pos)
                 => /\ threads_[k].pos = "publish"
                       => (threads_'[k].pos = "check" /\ published' = published + 1)
                    /\ (threads_[k].pos = "check" /\ sim_stop_[threads_[k].sim])
                       => (threads_'[k].pos = "returned" /\ published' = published)
                    /\ threads_[k].pos # "returned" ]_vars
    /\ [][ published' # published
              => \E k \in 1..Len(threads_) : threads_[k].pos = "publish" ]_vars
    /\ [][ \A k \in 1..Len(threads_) :
              (sim_stop_[threads_[k].sim] /\ threads_[k].pos # "returned")
                 => sim_stop_'[threads_[k].sim] ]_vars
    /\ [](\A t \in Callers :
            (mpc[t] = "stop_signal" /\ midx[t] <= mend[t] /\ ~aborted)
               => ENABLED stopAllSignal(t))

\* stopSimulation() came while one simulator thread was inside an iteration,
\* which has its one publish left, and another thread has already returned
C38_Witness ==
    /\ \E k \in 1..Len(threads_) :
          /\ threads_[k].pos = "publish"
          /\ sim_stop_[threads_[k].sim]
    /\ \E k \in 1..Len(threads_) :
          /\ threads_[k].pos = "returned"
          /\ ~threads_[k].joined
    /\ published >= 1

C40_ShutdownSequence ==
    /\ [][ published' # published => nStop = 0 ]_vars
    /\ [](stopCall[MainThread].returned
            => /\ event_queue_ = << >>
               /\ \A e \in 1..published : FullyDelivered(e) /\ invoked[e] = << 1 >>
               /\ \A k \in 1..Len(threads_) : threads_[k].pos = "returned"
               /\ ~terminated /\ ~aborted)

\* main() has come to the end of stop() with events of both simulators
\* published and delivered
C40_Witness ==
    /\ stopCall[MainThread].returned
    /\ published >= 2
    /\ Len(dequeued) = published
    /\ joinedIds = 1..MaxSims
    /\ \A x \in 1..MaxSims : sim_stop_[x]

====
